---------------------------- MODULE Spec2Model ----------------------------
(***************************************************************************)
(* Model of air/src/virtual_column.rs: PairCol, VirtualPairCol and the     *)
(* generic evaluator VirtualPairCol::apply.                                *)
(*                                                                         *)
(* The field F is the integers modulo P.  Expr is either F itself (mode    *)
(* "field") or a term-building symbolic expression (mode "symbolic").      *)
(***************************************************************************)
EXTENDS Integers, Sequences, FiniteSets

(***************************************************************************)
(* Bounds of the explored inputs.                                          *)
(***************************************************************************)
\* longest entry list / index list handed to a constructor
MaxLen == 2
\* longest preprocessed or main row handed to apply
MaxRow == 2

(***************************************************************************)
(* The field F (p3_field::Field): integers modulo the prime P.             *)
(***************************************************************************)
P == 3

F == 0 .. (P - 1)

FZero == 0

FOne == 1

FNegOne == P - 1

FAdd(a, b) == (a + b) % P

FMul(a, b) == (a * b) % P

FNeg(a) == (P - a) % P

(***************************************************************************)
(* PairCol: a column of the preprocessed or of the main trace.             *)
(***************************************************************************)
Preprocessed(i) == [tag |-> "Preprocessed", idx |-> i]

Main(i) == [tag |-> "Main", idx |-> i]

\* usize indices explored: 0 .. MaxRow, so MaxRow itself is out of range for
\* every explored row
Indices == 0 .. MaxRow

PairCol == {Preprocessed(i) : i \in Indices} \cup {Main(i) : i \in Indices}

\* slice indexing row[i] with Rust's bounds check (sequences are 1-based)
Index(row, i) ==
    IF i < Len(row)
    THEN [status |-> "ok", value |-> row[i + 1]]
    ELSE [status |-> "panic"]

\* variant: the index wraps around the row length
GetWrapping(self, preprocessed, main) ==
    LET row == IF self.tag = "Preprocessed" THEN preprocessed ELSE main
    IN  [res  |-> IF Len(row) = 0
                  THEN [status |-> "panic"]
                  ELSE Index(row, self.idx % Len(row)),
         read |-> [tag |-> self.tag, idx |-> self.idx]]

\* variant: the last index of a row is rejected
GetOffByOne(self, preprocessed, main) ==
    LET row == IF self.tag = "Preprocessed" THEN preprocessed ELSE main
    IN  [res  |-> IF self.idx + 1 < Len(row)
                  THEN Index(row, self.idx)
                  ELSE [status |-> "panic"],
         read |-> [tag |-> self.tag, idx |-> self.idx]]

\* PairCol::get; `read` records which slice was indexed, and where
Get(self, preprocessed, main) ==
    IF self.tag = "Preprocessed"
    THEN [res |-> Index(preprocessed, self.idx),
          read |-> [tag |-> "Preprocessed", idx |-> self.idx]]
    ELSE [res |-> Index(main, self.idx),
          read |-> [tag |-> "Main", idx |-> self.idx]]

(***************************************************************************)
(* The result algebra Expr and the input type Var of apply.                *)
(*   mode "field":    Expr = Var = F                                       *)
(*   mode "symbolic": Var is a symbolic variable, Expr a term              *)
(***************************************************************************)
Modes == {"field", "symbolic"}

SymVar(tag, i) == [tag |-> tag, idx |-> i]

\* F: Into<Expr>
FromF(mode, x) ==
    IF mode = "field" THEN x ELSE [op |-> "const", v |-> x]

\* Var: Into<Expr>
FromVar(mode, v) ==
    IF mode = "field" THEN v ELSE [op |-> "var", tag |-> v.tag, idx |-> v.idx]

\* Expr: Mul<F, Output = Expr>
MulF(mode, e, w) ==
    IF mode = "field" THEN FMul(e, w) ELSE [op |-> "mulF", e |-> e, w |-> w]

\* Expr: AbstractField, result += rhs
AddAssign(mode, result, rhs) ==
    IF mode = "field" THEN FAdd(result, rhs) ELSE [op |-> "add", l |-> result, r |-> rhs]

\* the value of a symbolic expression once its variables are replaced by the
\* values of a concrete row pair
RECURSIVE Eval(_, _, _)
Eval(e, preprocessed, main) ==
    CASE e.op = "const" -> e.v
      [] e.op = "var"   -> IF e.tag = "Preprocessed"
                           THEN preprocessed[e.idx + 1]
                           ELSE main[e.idx + 1]
      [] e.op = "mulF"  -> FMul(Eval(e.e, preprocessed, main), e.w)
      [] e.op = "add"   -> FAdd(Eval(e.l, preprocessed, main),
                                Eval(e.r, preprocessed, main))

(***************************************************************************)
(* VirtualPairCol: constructors.                                           *)
(***************************************************************************)
Owned(v) == [cow |-> "Owned", data |-> v]

Borrowed(v) == [cow |-> "Borrowed", data |-> v]

new(column_weights, constant) ==
    [column_weights |-> column_weights, constant |-> constant]

new_owned(column_weights, constant) ==
    [column_weights |-> Owned(column_weights), constant |-> constant]

new_borrowed(column_weights, constant) ==
    [column_weights |-> Borrowed(column_weights), constant |-> constant]

new_preprocessed(column_weights, constant) ==
    new(Owned([k \in 1 .. Len(column_weights) |->
                  <<Preprocessed(column_weights[k][1]), column_weights[k][2]>>]),
        constant)

new_main(column_weights, constant) ==
    new(Owned([k \in 1 .. Len(column_weights) |->
                  <<Main(column_weights[k][1]), column_weights[k][2]>>]),
        constant)

\* variant: the argument is dropped
constantIgnored(x) ==
    [column_weights |-> Owned(<<>>), constant |-> FZero]

constant(x) ==
    [column_weights |-> Owned(<<>>), constant |-> x]

one == constant(FOne)

single(column) ==
    [column_weights |-> Owned(<< <<column, FOne>> >>), constant |-> FZero]

single_preprocessed(column) == single(Preprocessed(column))

\* variant: the column is taken from the preprocessed trace
single_mainWrongTable(column) == single(Preprocessed(column))

single_main(column) == single(Main(column))

\* variant: the columns are taken from the preprocessed trace
sum_mainWrongTable(columns) ==
    LET column_weights == [k \in 1 .. Len(columns) |-> <<columns[k], FOne>>]
    IN  new_preprocessed(column_weights, FZero)

sum_main(columns) ==
    LET column_weights == [k \in 1 .. Len(columns) |-> <<columns[k], FOne>>]
    IN  new_main(column_weights, FZero)

sum_preprocessed(columns) ==
    LET column_weights == [k \in 1 .. Len(columns) |-> <<columns[k], FOne>>]
    IN  new_preprocessed(column_weights, FZero)

diff_preprocessed(a_col, b_col) ==
    new_preprocessed(<< <<a_col, FOne>>, <<b_col, FNegOne>> >>, FZero)

\* variant: b_col is weighted by one
diff_mainPlus(a_col, b_col) ==
    new_main(<< <<a_col, FOne>>, <<b_col, FOne>> >>, FZero)

diff_main(a_col, b_col) ==
    new_main(<< <<a_col, FOne>>, <<b_col, FNegOne>> >>, FZero)

\* accessors
get_column_weights(self) == self.column_weights.data

get_constant(self) == self.constant

(***************************************************************************)
(* VirtualPairCol::apply.  The loop runs over the entries in stored order; *)
(* an out-of-range index panics inside PairCol::get and ends the call.     *)
(* `reads` is the trace of slice accesses made so far.                     *)
(***************************************************************************)
NoValue == [op |-> "none"]

Panicked(reads) == [status |-> "panic", value |-> NoValue, reads |-> reads]

\* variant: the product is the left operand of the addition
RECURSIVE ApplyLoopSwapped(_, _, _, _, _, _)
ApplyLoopSwapped(mode, column_weights, k, preprocessed, main, acc) ==
    IF k > Len(column_weights)
    THEN acc
    ELSE LET column == column_weights[k][1]
             weight == column_weights[k][2]
             got    == Get(column, preprocessed, main)
             reads  == Append(acc.reads, got.read)
         IN  IF got.res.status = "panic"
             THEN Panicked(reads)
             ELSE ApplyLoopSwapped(mode, column_weights, k + 1, preprocessed, main,
                     [status |-> "ok",
                      value  |-> AddAssign(mode,
                                    MulF(mode, FromVar(mode, got.res.value), weight),
                                    acc.value),
                      reads  |-> reads])

RECURSIVE ApplyLoop(_, _, _, _, _, _)
ApplyLoop(mode, column_weights, k, preprocessed, main, acc) ==
    IF k > Len(column_weights)
    THEN acc
    ELSE LET column == column_weights[k][1]
             weight == column_weights[k][2]
             got    == Get(column, preprocessed, main)
             reads  == Append(acc.reads, got.read)
         IN  IF got.res.status = "panic"
             THEN Panicked(reads)
             ELSE ApplyLoop(mode, column_weights, k + 1, preprocessed, main,
                     [status |-> "ok",
                      value  |-> AddAssign(mode, acc.value,
                                    MulF(mode, FromVar(mode, got.res.value), weight)),
                      reads  |-> reads])

\* variant: the accumulator starts at zero
applyNoConstant(mode, self, preprocessed, main) ==
    ApplyLoop(mode, self.column_weights.data, 1, preprocessed, main,
              [status |-> "ok", value |-> FromF(mode, FZero), reads |-> <<>>])

apply(mode, self, preprocessed, main) ==
    ApplyLoop(mode, self.column_weights.data, 1, preprocessed, main,
              [status |-> "ok", value |-> FromF(mode, self.constant), reads |-> <<>>])

(***************************************************************************)
(* Inputs explored.                                                        *)
(***************************************************************************)
SeqsUpTo(S, n) == UNION {[1 .. k -> S] : k \in 0 .. n}

\* (PairCol, F) entry lists
EntryLists == SeqsUpTo(PairCol \X F, MaxLen)

\* (usize, F) lists of new_preprocessed / new_main
IndexWeightLists == SeqsUpTo(Indices \X F, MaxLen)

\* Vec<usize> of sum_main / sum_preprocessed
IndexLists == SeqsUpTo(Indices, MaxLen)

\* concrete rows, and the rows of symbolic variables a constraint compiler
\* hands to apply
FieldRows == SeqsUpTo(F, MaxRow)

RowLengths == (0 .. MaxRow) \X (0 .. MaxRow)

SymRow(tag, n) == [k \in 1 .. n |-> SymVar(tag, k - 1)]

RowPairs(mode) ==
    IF mode = "field"
    THEN FieldRows \X FieldRows
    ELSE {<<SymRow("Preprocessed", nm[1]), SymRow("Main", nm[2])>> : nm \in RowLengths}

(***************************************************************************)
(* State.                                                                  *)
(*   pc            "start": nothing built; "built": the caller holds a     *)
(*                 form; "applied": an apply call has ended                *)
(*   call          the constructor call that built the form                *)
(*   form          the VirtualPairCol                                      *)
(*   mode          the Expr/Var instantiation of the last apply            *)
(*   preprocessed, main   the row slices of the last apply                 *)
(*   out           how the last apply ended                                *)
(*   ret           what the last accessor call returned                    *)
(*   evaluated     whether apply has been called on the form               *)
(***************************************************************************)
VARIABLES pc, call, form, mode, preprocessed, main, out, ret, evaluated

vars == <<pc, call, form, mode, preprocessed, main, out, ret, evaluated>>

NoCall == [op |-> "none", args |-> <<>>]

NoOut == [status |-> "none", value |-> NoValue, reads |-> <<>>]

NoRet == [kind |-> "none"]

\* placeholder held before any constructor has run
NoForm == [column_weights |-> Owned(<<>>), constant |-> FZero]

Init ==
    /\ pc = "start"
    /\ call = NoCall
    /\ form = NoForm
    /\ mode = "none"
    /\ preprocessed = <<>>
    /\ main = <<>>
    /\ out = NoOut
    /\ ret = NoRet
    /\ evaluated = FALSE

\* a constructor returns `value` to the caller
Built(op, args, value) ==
    /\ pc = "start"
    /\ pc' = "built"
    /\ call' = [op |-> op, args |-> args]
    /\ form' = value
    /\ UNCHANGED <<mode, preprocessed, main, out, ret, evaluated>>

New(column_weights, c) == Built("new", <<column_weights, c>>, new(column_weights, c))

NewOwned(column_weights, c) ==
    Built("new_owned", <<column_weights, c>>, new_owned(column_weights, c))

NewBorrowed(column_weights, c) ==
    Built("new_borrowed", <<column_weights, c>>, new_borrowed(column_weights, c))

NewPreprocessed(column_weights, c) ==
    Built("new_preprocessed", <<column_weights, c>>, new_preprocessed(column_weights, c))

NewMain(column_weights, c) ==
    Built("new_main", <<column_weights, c>>, new_main(column_weights, c))

One == Built("one", <<>>, one)

Constant(x) == Built("constant", <<x>>, constant(x))

Single(column) == Built("single", <<column>>, single(column))

SinglePreprocessed(column) ==
    Built("single_preprocessed", <<column>>, single_preprocessed(column))

SingleMain(column) == Built("single_main", <<column>>, single_main(column))

SumMain(columns) == Built("sum_main", <<columns>>, sum_main(columns))

SumPreprocessed(columns) ==
    Built("sum_preprocessed", <<columns>>, sum_preprocessed(columns))

DiffPreprocessed(a_col, b_col) ==
    Built("diff_preprocessed", <<a_col, b_col>>, diff_preprocessed(a_col, b_col))

DiffMain(a_col, b_col) == Built("diff_main", <<a_col, b_col>>, diff_main(a_col, b_col))

\* self.get_column_weights() / self.get_constant(), both on &self
GetColumnWeights ==
    /\ pc = "built"
    /\ pc' = "read"
    /\ ret' = [kind |-> "column_weights", value |-> get_column_weights(form)]
    /\ UNCHANGED <<call, form, mode, preprocessed, main, out, evaluated>>

GetConstant ==
    /\ pc = "built"
    /\ pc' = "read"
    /\ ret' = [kind |-> "constant", value |-> get_constant(form)]
    /\ UNCHANGED <<call, form, mode, preprocessed, main, out, evaluated>>

\* variant: the call empties the entry list
ApplyDraining(m, pre, mn) ==
    /\ pc = "built"
    /\ pc' = "applied"
    /\ mode' = m
    /\ preprocessed' = pre
    /\ main' = mn
    /\ out' = apply(m, form, pre, mn)
    /\ form' = [form EXCEPT !.column_weights.data = <<>>]
    /\ evaluated' = TRUE
    /\ UNCHANGED <<call, ret>>

\* variant: the call takes the constant out of the form
ApplyTakingConstant(m, pre, mn) ==
    /\ pc = "built"
    /\ pc' = "applied"
    /\ mode' = m
    /\ preprocessed' = pre
    /\ main' = mn
    /\ out' = apply(m, form, pre, mn)
    /\ form' = [form EXCEPT !.constant = FZero]
    /\ evaluated' = TRUE
    /\ UNCHANGED <<call, ret>>

\* self.apply::<Expr, Var>(preprocessed, main), on &self and two shared slices
Apply(m, pre, mn) ==
    /\ pc = "built"
    /\ pc' = "applied"
    /\ mode' = m
    /\ preprocessed' = pre
    /\ main' = mn
    /\ out' = apply(m, form, pre, mn)
    /\ evaluated' = TRUE
    /\ UNCHANGED <<call, form, ret>>

\* the caller drops the rows and the outcome of the call (a panic unwinds to
\* the caller) and still holds the form
Return ==
    /\ pc \in {"applied", "read"}
    /\ pc' = "built"
    /\ mode' = "none"
    /\ preprocessed' = <<>>
    /\ main' = <<>>
    /\ out' = NoOut
    /\ ret' = NoRet
    /\ UNCHANGED <<call, form, evaluated>>

Next ==
    \/ pc = "start" /\ \E cw \in EntryLists, c \in F : New(Owned(cw), c)
    \/ pc = "start" /\ \E cw \in EntryLists, c \in F : New(Borrowed(cw), c)
    \/ pc = "start" /\ \E cw \in EntryLists, c \in F : NewOwned(cw, c)
    \/ pc = "start" /\ \E cw \in EntryLists, c \in F : NewBorrowed(cw, c)
    \/ pc = "start" /\ \E cw \in IndexWeightLists, c \in F : NewPreprocessed(cw, c)
    \/ pc = "start" /\ \E cw \in IndexWeightLists, c \in F : NewMain(cw, c)
    \/ pc = "start" /\ One
    \/ pc = "start" /\ \E x \in F : Constant(x)
    \/ pc = "start" /\ \E column \in PairCol : Single(column)
    \/ pc = "start" /\ \E column \in Indices : SinglePreprocessed(column)
    \/ pc = "start" /\ \E column \in Indices : SingleMain(column)
    \/ pc = "start" /\ \E columns \in IndexLists : SumMain(columns)
    \/ pc = "start" /\ \E columns \in IndexLists : SumPreprocessed(columns)
    \/ pc = "start" /\ \E a_col, b_col \in Indices : DiffPreprocessed(a_col, b_col)
    \/ pc = "start" /\ \E a_col, b_col \in Indices : DiffMain(a_col, b_col)
    \/ GetColumnWeights
    \/ GetConstant
    \/ pc = "built" /\ \E m \in Modes : \E rows \in RowPairs(m) : Apply(m, rows[1], rows[2])
    \/ Return

Spec == Init /\ [][Next]_vars

\* the constructors with fixed weights only
NextHelpers ==
    \/ pc = "start" /\ One
    \/ pc = "start" /\ \E x \in F : Constant(x)
    \/ pc = "start" /\ \E column \in PairCol : Single(column)
    \/ pc = "start" /\ \E column \in Indices : SinglePreprocessed(column)
    \/ pc = "start" /\ \E column \in Indices : SingleMain(column)
    \/ pc = "start" /\ \E columns \in IndexLists : SumMain(columns)
    \/ pc = "start" /\ \E columns \in IndexLists : SumPreprocessed(columns)
    \/ pc = "start" /\ \E a_col, b_col \in Indices : DiffPreprocessed(a_col, b_col)
    \/ pc = "start" /\ \E a_col, b_col \in Indices : DiffMain(a_col, b_col)
    \/ GetColumnWeights
    \/ GetConstant
    \/ pc = "built" /\ \E m \in Modes : \E rows \in RowPairs(m) : Apply(m, rows[1], rows[2])
    \/ Return

SpecHelpers == Init /\ [][NextHelpers]_vars

(***************************************************************************)
(* Vocabulary of the properties, stated without the evaluator.             *)
(***************************************************************************)
RowOf(column, pre, mn) == IF column.tag = "Preprocessed" THEN pre ELSE mn

InRange(column, pre, mn) == column.idx < Len(RowOf(column, pre, mn))

AllInRange(entries, pre, mn) ==
    \A k \in 1 .. Len(entries) : InRange(entries[k][1], pre, mn)

\* position of the first entry whose index is out of range
FirstOutOfRange(entries, pre, mn) ==
    CHOOSE k \in 1 .. Len(entries) :
        /\ ~InRange(entries[k][1], pre, mn)
        /\ \A j \in 1 .. (k - 1) : InRange(entries[j][1], pre, mn)

\* sum of weight * row[column] over the first n entries, in the integers
RECURSIVE WeightedSum(_, _, _, _)
WeightedSum(entries, n, pre, mn) ==
    IF n = 0
    THEN 0
    ELSE WeightedSum(entries, n - 1, pre, mn)
            + entries[n][2] * RowOf(entries[n][1], pre, mn)[entries[n][1].idx + 1]

AffineValue(entries, c, pre, mn) ==
    (c + WeightedSum(entries, Len(entries), pre, mn)) % P

\* sum of row[i] over the first n listed indices, in the integers
RECURSIVE IndexSum(_, _, _)
IndexSum(columns, n, row) ==
    IF n = 0 THEN 0 ELSE IndexSum(columns, n - 1, row) + row[columns[n] + 1]

Permutations(seq) ==
    {[k \in 1 .. Len(seq) |-> seq[f[k]]] :
        f \in {g \in [1 .. Len(seq) -> 1 .. Len(seq)] :
                  \A i, j \in 1 .. Len(seq) : g[i] = g[j] => i = j}}

\* the term ((..((c + v_1*w_1) + v_2*w_2)..) + v_n*w_n)
RECURSIVE FoldTerm(_, _, _)
FoldTerm(entries, c, n) ==
    IF n = 0
    THEN [op |-> "const", v |-> c]
    ELSE [op |-> "add",
          l  |-> FoldTerm(entries, c, n - 1),
          r  |-> [op |-> "mulF",
                  e  |-> [op |-> "var", tag |-> entries[n][1].tag,
                                         idx |-> entries[n][1].idx],
                  w  |-> entries[n][2]]]

\* the entries and the constant handed to the general constructors
General == {"new", "new_owned", "new_borrowed"}

GivenEntries == IF call.op = "new" THEN call.args[1].data ELSE call.args[1]

GivenConstant == call.args[2]

\* concrete row pairs of the lengths of the rows of the last apply
SameShapeRows ==
    {rows \in RowPairs("field") :
        Len(rows[1]) = Len(preprocessed) /\ Len(rows[2]) = Len(main)}

Entries == form.column_weights.data

(***************************************************************************)
(* C1: for a form built by new / new_owned / new_borrowed from entries E   *)
(* and constant c, and rows in which every referenced index is in range,   *)
(* apply over the field returns c + sum of weight * row[column], mod P.    *)
(***************************************************************************)
C1_ApplyIsAffineSum ==
    (pc = "applied" /\ mode = "field" /\ call.op \in General
        /\ AllInRange(GivenEntries, preprocessed, main))
    => /\ out.status = "ok"
       /\ out.value = AffineValue(GivenEntries, GivenConstant, preprocessed, main)

\* the scenario of the specification, over the integers mod 3:
\* preprocessed [0], main [2, 1], entries [(Main(0), 1), (Main(1), -1)],
\* constant 1 gives 2 - 1 + 1 = 2
C1_Witness ==
    /\ pc = "applied"
    /\ mode = "field"
    /\ call = [op |-> "new_borrowed",
               args |-> << << <<Main(0), FOne>>, <<Main(1), FNegOne>> >>, 1 >>]
    /\ preprocessed = <<0>>
    /\ main = <<2, 1>>
    /\ out.status = "ok"
    /\ out.value = 2

(***************************************************************************)
(* C2: consistency law.  The expression apply builds over rows of symbolic *)
(* variables, with the values of any concrete row pair of the same shape   *)
(* substituted for the variables, has the value apply returns over the     *)
(* field on that row pair.                                                 *)
(***************************************************************************)
C2_SymbolicAgreesWithField ==
    (pc = "applied" /\ mode = "symbolic" /\ AllInRange(Entries, preprocessed, main))
    => /\ out.status = "ok"
       /\ \A rows \in SameShapeRows :
             LET direct == apply("field", form, rows[1], rows[2])
             IN  /\ direct.status = "ok"
                 /\ Eval(out.value, rows[1], rows[2]) = direct.value

C2_Witness ==
    /\ pc = "applied"
    /\ mode = "symbolic"
    /\ out.status = "ok"
    /\ Len(Entries) = 2
    /\ Entries[1][1].tag = "Preprocessed"
    /\ Entries[2][1].tag = "Main"
    /\ Entries[1][2] = FNegOne
    /\ Entries[2][2] = FNegOne
    /\ form.constant = FOne

(***************************************************************************)
(* C3: when some entry's index is not below the length of the row it       *)
(* names, apply panics and returns no value, whatever the weight and the   *)
(* position of the entry and whatever the other row holds; the slices read *)
(* up to the panic are exactly the ones the entries name, in order; and    *)
(* PairCol::get panics on every such reference.                            *)
(***************************************************************************)
C3_OutOfRangePanics ==
    pc = "applied"
    => /\ \A column \in PairCol :
             ~InRange(column, preprocessed, main)
             => Get(column, preprocessed, main).res.status = "panic"
       /\ ~AllInRange(Entries, preprocessed, main)
          => /\ out.status = "panic"
             /\ out.value = NoValue
             /\ LET first == FirstOutOfRange(Entries, preprocessed, main)
                IN  out.reads = [k \in 1 .. first |-> Entries[k][1]]

\* Main(1) with weight zero, second in the list, against a main row of length
\* 1 and a preprocessed row of length 2
C3_Witness ==
    /\ pc = "applied"
    /\ mode = "field"
    /\ Entries = << <<Main(0), FOne>>, <<Main(1), FZero>> >>
    /\ Len(main) = 1
    /\ Len(preprocessed) = 2
    /\ out.status = "panic"

(***************************************************************************)
(* C4: an invalid column index is the only failure.  Every constructor     *)
(* can be called with any indices, weights and constant; and apply         *)
(* returns a value whenever every index is in range, also for rows of      *)
(* different lengths and for an empty row.                                 *)
(***************************************************************************)
C4_OnlyIndexFails ==
    /\ pc = "start"
       => /\ \A cw \in EntryLists, c \in F :
                /\ ENABLED New(Owned(cw), c)
                /\ ENABLED New(Borrowed(cw), c)
                /\ ENABLED NewOwned(cw, c)
                /\ ENABLED NewBorrowed(cw, c)
          /\ \A cw \in IndexWeightLists, c \in F :
                ENABLED NewPreprocessed(cw, c) /\ ENABLED NewMain(cw, c)
          /\ ENABLED One
          /\ \A x \in F : ENABLED Constant(x)
          /\ \A column \in PairCol : ENABLED Single(column)
          /\ \A column \in Indices :
                ENABLED SinglePreprocessed(column) /\ ENABLED SingleMain(column)
          /\ \A columns \in IndexLists :
                ENABLED SumMain(columns) /\ ENABLED SumPreprocessed(columns)
          /\ \A a_col, b_col \in Indices :
                ENABLED DiffMain(a_col, b_col) /\ ENABLED DiffPreprocessed(a_col, b_col)
    /\ (pc = "applied" /\ AllInRange(Entries, preprocessed, main))
       => out.status = "ok"

\* both indices of the longest main row are used while the preprocessed row
\* is empty
C4_Witness ==
    /\ pc = "applied"
    /\ call.op = "new_main"
    /\ Len(Entries) = 2
    /\ Entries[1][1] = Main(MaxRow - 1)
    /\ Entries[2][1] = Main(0)
    /\ preprocessed = <<>>
    /\ Len(main) = MaxRow
    /\ out.status = "ok"

(***************************************************************************)
(* C5: constant(x).apply returns x for every pair of rows, two empty rows  *)
(* included, and indexes no slice; one().apply returns the multiplicative  *)
(* identity of the field.                                                  *)
(***************************************************************************)
C5_ConstantIgnoresRows ==
    (pc = "applied" /\ call.op \in {"constant", "one"})
    => /\ out.status = "ok"
       /\ out.reads = <<>>
       /\ LET value == IF mode = "field"
                       THEN out.value
                       ELSE Eval(out.value, preprocessed, main)
          IN  IF call.op = "constant"
              THEN value = call.args[1]
              ELSE \A y \in F : FMul(value, y) = y /\ FMul(y, value) = y

C5_Witness ==
    /\ pc = "applied"
    /\ mode = "field"
    /\ call = [op |-> "constant", args |-> <<FNegOne>>]
    /\ preprocessed = <<>>
    /\ main = <<>>
    /\ out.status = "ok"
    /\ out.value = FNegOne

(***************************************************************************)
(* C6: single_main(i).apply returns main[i] whenever i < len(main), and    *)
(* single_preprocessed(i).apply returns pre[i] whenever i < len(pre),      *)
(* whatever the row that is not named holds, an empty row included.        *)
(***************************************************************************)
C6_SingleSelectsColumn ==
    /\ (pc = "applied" /\ mode = "field" /\ call.op = "single_main"
            /\ call.args[1] < Len(main))
       => /\ out.status = "ok"
          /\ out.value = main[call.args[1] + 1]
          /\ \A other \in FieldRows :
                apply("field", form, other, main) = out
    /\ (pc = "applied" /\ mode = "field" /\ call.op = "single_preprocessed"
            /\ call.args[1] < Len(preprocessed))
       => /\ out.status = "ok"
          /\ out.value = preprocessed[call.args[1] + 1]
          /\ \A other \in FieldRows :
                apply("field", form, preprocessed, other) = out

C6_Witness ==
    /\ pc = "applied"
    /\ mode = "field"
    /\ call = [op |-> "single_main", args |-> <<1>>]
    /\ preprocessed = <<>>
    /\ main = <<1, 2>>
    /\ out.status = "ok"
    /\ out.value = 2

(***************************************************************************)
(* C7: for in-range indices, sum_main(indices).apply returns the field sum *)
(* of main[k] over the listed indices, a repeated index counted once per   *)
(* occurrence and the empty list giving zero; sum_preprocessed likewise    *)
(* over the preprocessed row; and every permutation of the index list      *)
(* gives the same result.                                                  *)
(***************************************************************************)
C7_SumOfColumns ==
    /\ (pc = "applied" /\ mode = "field" /\ call.op = "sum_main"
            /\ \A k \in 1 .. Len(call.args[1]) : call.args[1][k] < Len(main))
       => /\ out.status = "ok"
          /\ out.value = IndexSum(call.args[1], Len(call.args[1]), main) % P
          /\ \A columns \in Permutations(call.args[1]) :
                LET permuted == apply("field", sum_main(columns), preprocessed, main)
                IN  permuted.status = "ok" /\ permuted.value = out.value
    /\ (pc = "applied" /\ mode = "field" /\ call.op = "sum_preprocessed"
            /\ \A k \in 1 .. Len(call.args[1]) : call.args[1][k] < Len(preprocessed))
       => /\ out.status = "ok"
          /\ out.value = IndexSum(call.args[1], Len(call.args[1]), preprocessed) % P
          /\ \A columns \in Permutations(call.args[1]) :
                LET permuted ==
                        apply("field", sum_preprocessed(columns), preprocessed, main)
                IN  permuted.status = "ok" /\ permuted.value = out.value

\* main[1] + main[0] = 2 + 2 = 1 mod 3, whatever the preprocessed row holds
C7_Witness ==
    /\ pc = "applied"
    /\ mode = "field"
    /\ call = [op |-> "sum_main", args |-> << <<1, 0>> >>]
    /\ preprocessed = <<1>>
    /\ main = <<2, 2>>
    /\ out.status = "ok"
    /\ out.value = 1

(***************************************************************************)
(* C8: for in-range a and b (a = b included), diff_main(a, b).apply        *)
(* returns main[a] - main[b] and diff_preprocessed(a, b).apply returns     *)
(* pre[a] - pre[b], in the field; and each is the field negation of the    *)
(* result with a and b exchanged.                                          *)
(***************************************************************************)
C8_DiffOfColumns ==
    /\ (pc = "applied" /\ mode = "field" /\ call.op = "diff_main"
            /\ call.args[1] < Len(main) /\ call.args[2] < Len(main))
       => /\ out.status = "ok"
          /\ out.value = (main[call.args[1] + 1] + P - main[call.args[2] + 1]) % P
          /\ LET exchanged == apply("field", diff_main(call.args[2], call.args[1]),
                                    preprocessed, main)
             IN  exchanged.status = "ok" /\ out.value = FNeg(exchanged.value)
    /\ (pc = "applied" /\ mode = "field" /\ call.op = "diff_preprocessed"
            /\ call.args[1] < Len(preprocessed) /\ call.args[2] < Len(preprocessed))
       => /\ out.status = "ok"
          /\ out.value = (preprocessed[call.args[1] + 1] + P
                             - preprocessed[call.args[2] + 1]) % P
          /\ LET exchanged == apply("field", diff_preprocessed(call.args[2], call.args[1]),
                                    preprocessed, main)
             IN  exchanged.status = "ok" /\ out.value = FNeg(exchanged.value)

\* main[0] - main[1] = 1 - 2 = 2 mod 3
C8_Witness ==
    /\ pc = "applied"
    /\ mode = "field"
    /\ call = [op |-> "diff_main", args |-> <<0, 1>>]
    /\ main = <<1, 2>>
    /\ out.status = "ok"
    /\ out.value = 2

\* what each constructor is given or documented to store
ConstructedEntries ==
    CASE call.op = "new" -> call.args[1].data
      [] call.op \in {"new_owned", "new_borrowed"} -> call.args[1]
      [] call.op = "new_preprocessed" ->
            [k \in 1 .. Len(call.args[1]) |->
                <<Preprocessed(call.args[1][k][1]), call.args[1][k][2]>>]
      [] call.op = "new_main" ->
            [k \in 1 .. Len(call.args[1]) |->
                <<Main(call.args[1][k][1]), call.args[1][k][2]>>]
      [] call.op \in {"one", "constant"} -> <<>>
      [] call.op = "single" -> << <<call.args[1], 1 % P>> >>
      [] call.op = "single_preprocessed" -> << <<Preprocessed(call.args[1]), 1 % P>> >>
      [] call.op = "single_main" -> << <<Main(call.args[1]), 1 % P>> >>
      [] call.op = "sum_preprocessed" ->
            [k \in 1 .. Len(call.args[1]) |-> <<Preprocessed(call.args[1][k]), 1 % P>>]
      [] call.op = "sum_main" ->
            [k \in 1 .. Len(call.args[1]) |-> <<Main(call.args[1][k]), 1 % P>>]
      [] call.op = "diff_preprocessed" ->
            << <<Preprocessed(call.args[1]), 1 % P>>,
               <<Preprocessed(call.args[2]), (P - 1) % P>> >>
      [] call.op = "diff_main" ->
            << <<Main(call.args[1]), 1 % P>>, <<Main(call.args[2]), (P - 1) % P>> >>

ConstructedConstant ==
    CASE call.op \in {"new", "new_owned", "new_borrowed", "new_preprocessed", "new_main"} ->
            call.args[2]
      [] call.op = "constant" -> call.args[1]
      [] call.op = "one" -> 1 % P
      [] OTHER -> 0

(***************************************************************************)
(* C9: a form is immutable after construction.  After any sequence of      *)
(* apply calls (returning or panicking) and accessor calls, the form       *)
(* holds, and get_column_weights returns, exactly the entry sequence given *)
(* at construction, and get_constant the constant given at construction;   *)
(* the rows are unchanged too, so that apply on the rows and the form as   *)
(* they are after a call ends as that call did.                            *)
(***************************************************************************)
C9_FormIsImmutable ==
    pc # "start"
    => /\ get_column_weights(form) = ConstructedEntries
       /\ get_constant(form) = ConstructedConstant
       /\ ret.kind = "column_weights" => ret.value = ConstructedEntries
       /\ ret.kind = "constant" => ret.value = ConstructedConstant
       /\ pc = "applied" => out = apply(mode, form, preprocessed, main)

\* after an apply call, the accessor returns both copies of a repeated entry
C9_Witness ==
    /\ pc = "read"
    /\ evaluated
    /\ call.op = "new_borrowed"
    /\ ret.kind = "column_weights"
    /\ ret.value = << <<Main(1), FNegOne>>, <<Main(1), FNegOne>> >>

(***************************************************************************)
(* C10: apply is a left fold in stored entry order.  Over symbolic         *)
(* expressions the result is exactly the term                              *)
(* ((..((c + v_1*w_1) + v_2*w_2)..) + v_n*w_n), each weight the right-hand *)
(* field-element operand of its product and never converted into an        *)
(* expression; for no entries it is exactly the converted constant; and    *)
(* the columns are resolved in stored order.                               *)
(***************************************************************************)
C10_LeftFoldInStoredOrder ==
    (pc = "applied" /\ mode = "symbolic" /\ AllInRange(Entries, preprocessed, main))
    => /\ out.status = "ok"
       /\ out.value = FoldTerm(Entries, form.constant, Len(Entries))
       /\ out.reads = [k \in 1 .. Len(Entries) |-> Entries[k][1]]

C10_Witness ==
    /\ pc = "applied"
    /\ mode = "symbolic"
    /\ call.op = "new_owned"
    /\ out.status = "ok"
    /\ out.value =
          [op |-> "add",
           l  |-> [op |-> "add",
                   l  |-> [op |-> "const", v |-> 1],
                   r  |-> [op |-> "mulF",
                           e  |-> [op |-> "var", tag |-> "Main", idx |-> 1],
                           w  |-> 2]],
           r  |-> [op |-> "mulF",
                   e  |-> [op |-> "var", tag |-> "Preprocessed", idx |-> 0],
                   w  |-> 0]]

=============================================================================
